---- MODULE Spec2Model ----
(***************************************************************************)
(* Local code interpreter tool: the code-execution backends of             *)
(* src/local_code_interpreter/tools.py (subprocess backend, hyperlight VM  *)
(* sandbox backend, CodeExecutionTool) and the retry middleware of         *)
(* src/local_code_interpreter/shared.py.                                   *)
(*                                                                         *)
(* Text is modelled as a run-length string: a sequence of runs             *)
(* <<unit, owner, n>>, "unit" repeated n times, written by "owner" (a call *)
(* id, 0 for fixed message texts; for what the host wrote, the number of   *)
(* calls begun when it was written).  A fixed message text of the code is  *)
(* one unit.  Adjacent runs never share unit and owner.                    *)
(***************************************************************************)
EXTENDS Integers, Sequences, FiniteSets, TLC

\* ------------------------------------------------------------- bounds
MaxCalls == 2
MaxHostWrites == 1
MaxSandboxWrites == 1
MaxChildWrites == 2
MaxRetries == 3

Calls == 1..MaxCalls

\* ------------------------------------------------------------- text
Lit(t) == << <<t, 0, 1>> >>

Cat(a, b) ==
    IF a = <<>> THEN b
    ELSE IF b = <<>> THEN a
    ELSE IF a[Len(a)][1] = b[1][1] /\ a[Len(a)][2] = b[1][2]
         THEN SubSeq(a, 1, Len(a) - 1)
              \o << <<b[1][1], b[1][2], a[Len(a)][3] + b[1][3]>> >>
              \o Tail(b)
         ELSE a \o b

RECURSIVE StrLen(_)
StrLen(s) == IF s = <<>> THEN 0 ELSE s[1][3] + StrLen(Tail(s))

\* s[:k]
RECURSIVE Take(_, _)
Take(s, k) ==
    IF k <= 0 \/ s = <<>> THEN <<>>
    ELSE IF s[1][3] <= k THEN <<s[1]>> \o Take(Tail(s), k - s[1][3])
    ELSE << <<s[1][1], s[1][2], k>> >>

Whitespace == {" ", "\n"}

RECURSIVE LStrip(_)
LStrip(s) ==
    IF s = <<>> THEN <<>>
    ELSE IF s[1][1] \in Whitespace THEN LStrip(Tail(s))
    ELSE s

RECURSIVE RStrip(_)
RStrip(s) ==
    IF s = <<>> THEN <<>>
    ELSE IF s[Len(s)][1] \in Whitespace THEN RStrip(SubSeq(s, 1, Len(s) - 1))
    ELSE s

\* str.strip()
Strip(s) == RStrip(LStrip(s))

\* ------------------------------------------------------------- constants
MAX_OUTPUT_SIZE == 10000
GRACE_PERIOD == 5
DEFAULT_TIMEOUT == 30
DEFAULT_MAX_RETRIES == 5
\* min_wait: float = 1.0 and max_wait: float = 60.0, in tenths of a second
DEFAULT_MIN_WAIT == 10
DEFAULT_MAX_WAIT == 600
MaxTimeout == 2
MaxSessionRetries == 1
MaxStreamRetries == 2
MaxChunks == 2

None == 0
\* the target fd 1 refers to before any redirection; a call id c as a target
\* stands for that call's capture file
OriginalStdout == 0

\* str(e) of a raised exception: it may be empty
ExcMsgs == {<<>>, Lit("err")}

\* ------------------------------------------------------------- state
VARIABLES
    environment,   \* tool.environment
    timeout,       \* tool.timeout
    log_directory, \* tool.log_directory
    tmp_directory, \* tool.tmp_directory
    hyperlight_language, \* tool.hyperlight_language
    sandbox,       \* tool._sandbox: None or a handle id
    constructed,   \* number of NanvixSandbox handles constructed so far
    attempts,      \* number of calls of NanvixSandbox(config) so far
    used,          \* used[c]: the handle call c got from _get_sandbox, while in flight
    fd1,           \* the target of the process's file descriptor 1
    pybuf,         \* text buffered in sys.stdout, not yet written to fd 1
    files,         \* workload files that exist in the scratch directory
    capfiles,      \* capture files that exist in the scratch directory
    cap,           \* cap[c]: content of the capture file of call c
    openFds,       \* number of open duplicates of fd 1
    pc,            \* pc[c]: position of the _execute call c
    saved,         \* saved[c]: the target original_stdout_fd of call c refers to
    alone,         \* alone[c]: no other call has been in flight during call c
    ret,           \* what the latest step returned to a caller of _execute, if it
                   \* returned: the call, the text returned, whether it raised
                   \* instead, whether the call ran alone, and of its child:
                   \* whether it was killed, the seconds of grace waited, whether
                   \* it had written output, and of its sandbox run: the
                   \* WorkloadResult and the captured text; the operation that
                   \* returned (execute or clear_cache) and the steps it took on
                   \* standard output and the capture file, in order; the exit
                   \* status of its child and all the child wrote
    hostWrites,    \* number of host writes to sys.stdout so far
    sbxWrites,     \* number of writes of sandbox runs so far
    code,          \* code[c]: the language the source submitted to call c is written
                   \* in, while its child runs
    pipeOut,       \* pipeOut[c]: what the child of call c wrote to stdout
    pipeErr,       \* pipeErr[c]: what the child of call c wrote to stderr
    childWrites,   \* childWrites[c]: number of writes of the child so far
    proc,          \* proc[c]: "none", "running" or "exited"
    killed,        \* killed[c]: proc.kill() was called
    elapsed,       \* elapsed[c]: seconds waited in wait_for(proc.communicate())
    grace,         \* grace[c]: seconds waited in wait_for(proc.wait())
    child_env,     \* child_env[c]: the environment the child of call c was given
    os_environ,    \* os.environ of the host process: the names of its variables
    HYPERLIGHT_AVAILABLE, \* whether hyperlight_nanvix could be imported
    started,       \* the tool has been constructed
    instructions,  \* the instructions the agent was created with
    startup,       \* how the tool came to be built: the environment asked for, the
                   \* caller that built it, the error its construction raised
    stream,        \* run_streaming_with_retry: its arguments max_retries, min_wait and
                   \* max_wait (tenths of a second), its locals attempt and wait_time,
                   \* the number of chunks of the current attempt, the error it raised
                   \* and its position: idle, streaming, sleeping, returned, raised
    printed,       \* what run_streaming_with_retry has printed, in order
    max_retries,   \* RetryOnRateLimitMiddleware.max_retries
    min_wait,      \* RetryOnRateLimitMiddleware.min_wait, in tenths of a second
    max_wait,      \* RetryOnRateLimitMiddleware.max_wait, in tenths of a second
    context,       \* context[r]: the context call r of process() was given
    rstate,        \* rstate[r]: position of call r of process(): idle, calling,
                   \* waiting, success, failed
    attempt_number,\* attempt_number[r]: tenacity's retry_state.attempt_number
    upcoming_sleep,\* upcoming_sleep[r]: the wait call r is in, in tenths of a second
    errs,          \* errs[r]: the messages of the errors next(context) raised to
                   \* call r, in order
    calls,         \* calls[r]: number of calls of next by call r so far
    passed,        \* passed[r]: the contexts call r called next with
    waits,         \* waits[r]: number of waits of call r so far
    outcome        \* outcome[r]: what call r of process() gave its caller

configVars == <<environment, timeout, log_directory, tmp_directory, hyperlight_language>>
toolVars == <<sandbox, constructed, attempts, used>>
fdVars == <<fd1, pybuf, files, capfiles, cap, openFds, saved, hostWrites, sbxWrites>>
callVars == <<pc, alone, ret>>
pyVars == <<code, pipeOut, pipeErr, childWrites, proc, killed, elapsed, grace, child_env>>
agentVars == <<os_environ, HYPERLIGHT_AVAILABLE, started, instructions, startup>>
streamVars == <<stream, printed>>
appVars == <<agentVars, streamVars>>
middlewareVars == <<max_retries, min_wait, max_wait>>
retryVars == <<middlewareVars, context, rstate, attempt_number, upcoming_sleep, errs, calls,
               passed, waits, outcome>>
vars == <<configVars, toolVars, fdVars, callVars, pyVars, retryVars, appVars>>

\* the ChatContext objects process() may be called with
Contexts == {"ctx1", "ctx2"}

\* the calls of process() on one middleware object
Requests == {"r1", "r2"}

NoOutcome == [kind |-> "none", error |-> <<>>]

\* no WorkloadResult
NoResult == <<>>

NoReturn ==
    [call |-> 0, text |-> <<>>, raised |-> FALSE, alone |-> TRUE,
     killed |-> FALSE, grace |-> 0, partial |-> FALSE,
     result |-> NoResult, captured |-> <<>>, op |-> "none", steps |-> <<>>,
     returncode |-> 0, output |-> <<>>]

DEFAULT_LANGUAGE == "javascript"

\* tempfile.gettempdir(), the directory __init__ takes when it is given none
gettempdir == "/tmp"

\* child_env of a call that has no child
NoChild == {"no child"}

\* CodeExecutionTool.__init__ with environment env, timeout t and
\* hyperlight_language lang
ToolInit(env, t, lang) ==
    /\ environment = env
    /\ timeout = t
    /\ hyperlight_language = lang
    /\ log_directory = gettempdir
    /\ tmp_directory = gettempdir
    /\ sandbox = None
    /\ constructed = 0
    /\ attempts = 0
    /\ used = [c \in Calls |-> None]
    /\ fd1 = OriginalStdout
    /\ pybuf = <<>>
    /\ files = {}
    /\ capfiles = {}
    /\ cap = [c \in Calls |-> <<>>]
    /\ openFds = 0
    /\ pc = [c \in Calls |-> "idle"]
    /\ saved = [c \in Calls |-> OriginalStdout]
    /\ alone = [c \in Calls |-> TRUE]
    /\ ret = NoReturn
    /\ hostWrites = 0
    /\ sbxWrites = 0
    /\ code = [c \in Calls |-> "none"]
    /\ pipeOut = [c \in Calls |-> <<>>]
    /\ pipeErr = [c \in Calls |-> <<>>]
    /\ childWrites = [c \in Calls |-> 0]
    /\ proc = [c \in Calls |-> "none"]
    /\ killed = [c \in Calls |-> FALSE]
    /\ elapsed = [c \in Calls |-> 0]
    /\ grace = [c \in Calls |-> 0]
    /\ child_env = [c \in Calls |-> NoChild]

\* the variables of the host process
Environ == {"SECRET"}

\* no agent has been created
NoInstructions == "none"

\* max_retries: int = 5, min_wait: float = 2.0, max_wait: float = 60.0 of
\* run_streaming_with_retry, the waits in tenths of a second
STREAM_MAX_RETRIES == 5
STREAM_MIN_WAIT == 20
STREAM_MAX_WAIT == 600

\* run_streaming_with_retry(agent, query, n, lo, hi) not yet called
StreamArgs(n, lo, hi) ==
    /\ stream = [state |-> "idle", attempt |-> 0, chunks |-> 0, wait_time |-> 0,
                 error |-> <<>>, error_type |-> "none", max_retries |-> n, min_wait |-> lo, max_wait |-> hi]
    /\ printed = <<>>

\* the tool was constructed by a direct call of CodeExecutionTool(...)
Direct == [requested |-> "none", by |-> "direct", error |-> "none"]

\* the host process, started with the variables parent; the tool is constructed
\* directly, hyperlight_nanvix is installed
HostInit(parent) ==
    /\ os_environ = parent
    /\ HYPERLIGHT_AVAILABLE = TRUE
    /\ started = TRUE
    /\ instructions = NoInstructions
    /\ startup = Direct
    /\ StreamArgs(STREAM_MAX_RETRIES, STREAM_MIN_WAIT, STREAM_MAX_WAIT)

\* RetryOnRateLimitMiddleware.__init__ with max_retries n, min_wait lo and max_wait
\* hi; process() not yet called; ctxs[r] is the context call r will be given
MiddlewareInitWith(n, lo, hi, ctxs) ==
    /\ max_retries = n
    /\ min_wait = lo
    /\ max_wait = hi
    /\ context = ctxs
    /\ rstate = [r \in Requests |-> "idle"]
    /\ attempt_number = [r \in Requests |-> 0]
    /\ upcoming_sleep = [r \in Requests |-> 0]
    /\ errs = [r \in Requests |-> <<>>]
    /\ calls = [r \in Requests |-> 0]
    /\ passed = [r \in Requests |-> {}]
    /\ waits = [r \in Requests |-> 0]
    /\ outcome = [r \in Requests |-> NoOutcome]

\* the middleware with the waits of its defaults
MiddlewareInit(n, ctx) ==
    MiddlewareInitWith(n, DEFAULT_MIN_WAIT, DEFAULT_MAX_WAIT, [r \in Requests |-> ctx])

Init ==
    /\ \E cfg \in ({"python"} \X (1..MaxTimeout)) \cup {<<"hyperlight", DEFAULT_TIMEOUT>>} :
          ToolInit(cfg[1], cfg[2], DEFAULT_LANGUAGE)
    /\ MiddlewareInit(DEFAULT_MAX_RETRIES, "ctx1")
    /\ HostInit(Environ)

\* the step returns nothing to a caller
Quiet == ret' = NoReturn

Done(c) == pc[c] = "done"
InFlight == {c \in Calls : pc[c] \notin {"idle", "done"}}

\* ------------------------------------------------------------- result texts
\* mutant: the empty result is returned as it is
NonEmptySkipped(r) == r

\* if not result: result = "(No output)"
NonEmpty(r) == IF r = <<>> THEN Lit("(No output)") ELSE r

\* f"Error executing code: {e}"
ErrorExecuting(msg) == Cat(Lit("Error executing code: "), msg)

\* f"Error during sandbox execution: {e}"
SandboxError(msg) == Cat(Lit("Error during sandbox execution: "), msg)

\* f"Error: Execution timed out after {timeout}s"
TimeoutResult(n) == Lit("Error: Execution timed out after ") \o Lit(ToString(n)) \o Lit("s")

\* mutant: a failed run returns what was captured, when there is any
WorkloadOutcome_captured_first(success, error, captured) ==
    IF captured # <<>> THEN captured
    ELSE IF success THEN Lit("Execution completed successfully.")
    ELSE Cat(Lit("Execution failed: "), IF error # <<>> THEN error ELSE Lit("Unknown error"))

\* the mapping of a WorkloadResult and the captured text to the returned text
WorkloadOutcome(success, error, captured) ==
    IF success
    THEN IF captured # <<>> THEN captured ELSE Lit("Execution completed successfully.")
    ELSE Cat(Lit("Execution failed: "), IF error # <<>> THEN error ELSE Lit("Unknown error"))

\* mutant: except OSError as e
ExecuteCatchesOSError(exc) == exc = "OSError"

\* except Exception as e: return error_msg
ExecuteCatches(exc) == exc = "Exception"

\* ------------------------------------------------------------- _execute
\* Calls are numbered in the order they begin.
\* mutant: _execute takes the sandbox branch on every environment
execute_uses_sandbox_always(env) == TRUE

\* the branch of _execute: if self.environment == "hyperlight", else the subprocess
execute_uses_sandbox(env) == env = "hyperlight"

MayBegin(c) == started /\ pc[c] = "idle" /\ \A d \in Calls : d < c => pc[d] # "idle"

\* the call suspends at an await: the calls in flight no longer run alone
Suspends(c, at) ==
    /\ pc' = [pc EXCEPT ![c] = at]
    /\ alone' = IF pc[c] = "idle"
                THEN [d \in Calls |-> IF d = c THEN InFlight = {}
                                      ELSE IF d \in InFlight THEN FALSE ELSE alone[d]]
                ELSE alone
    /\ Quiet

\* the call c of operation op ends with text or an exception; wr and captured: the
\* WorkloadResult and the captured text of its sandbox run, if it had one; steps:
\* what it did to standard output and the capture file; rc: the exit status of its
\* child, if it had one
EndsChild(c, op, text, exc, wr, captured, steps, rc) ==
    /\ pc' = [pc EXCEPT ![c] = "done"]
    /\ ret' = [call |-> c, text |-> text, raised |-> exc,
               alone |-> IF pc[c] = "idle" THEN InFlight = {} ELSE alone[c],
               killed |-> killed[c], grace |-> grace[c],
               partial |-> childWrites[c] > 0,
               result |-> wr, captured |-> captured, op |-> op, steps |-> steps,
               returncode |-> rc, output |-> Cat(pipeOut[c], pipeErr[c])]
    /\ alone' = [d \in Calls |-> IF d = c THEN TRUE
                                 ELSE IF pc[c] = "idle" /\ d \in InFlight THEN FALSE
                                 ELSE alone[d]]

EndsOp(c, op, text, exc, wr, captured, steps) ==
    EndsChild(c, op, text, exc, wr, captured, steps, 0)

Ends(c, text, exc) == EndsOp(c, "execute", text, exc, NoResult, <<>>, <<>>)

\* return result
Returns(c, r) == Ends(c, r, FALSE)

\* an exception of class exc with text msg reaches the try of _execute
Fails(c, exc, msg) ==
    IF ExecuteCatches(exc)
    THEN Returns(c, ErrorExecuting(msg))
    ELSE Ends(c, <<>>, TRUE)

\* ------------------------------------------------------------- _get_sandbox
\* The tool's handle and the number of handles constructed after _get_sandbox, from
\* the handle sb and the number n before it.
\* built: whether NanvixSandbox(config) succeeds when it is called
\* mutant: a handle is constructed at every call
get_sandbox_uncached(sb, n, built) ==
    IF built THEN [sandbox |-> n + 1, constructed |-> n + 1]
    ELSE [sandbox |-> None, constructed |-> n]

\* mutant: the handle is assigned before the construction is known to succeed
get_sandbox_caches_failure(sb, n, built) ==
    IF sb = None
    THEN [sandbox |-> n + 1, constructed |-> IF built THEN n + 1 ELSE n]
    ELSE [sandbox |-> sb, constructed |-> n]

get_sandbox(sb, n, built) ==
    IF sb = None
    THEN IF built THEN [sandbox |-> n + 1, constructed |-> n + 1]
         ELSE [sandbox |-> None, constructed |-> n]
    ELSE [sandbox |-> sb, constructed |-> n]

\* self._get_sandbox() as one step of a task
GetSandbox(built) ==
    /\ sandbox' = get_sandbox(sandbox, constructed, built).sandbox
    /\ constructed' = get_sandbox(sandbox, constructed, built).constructed
    /\ attempts' = IF sandbox = None THEN attempts + 1 ELSE attempts

\* ------------------------------------------------------------- _run_hyperlight
\* The points at which the part of _run_hyperlight before the await can raise;
\* "none": it reaches await sandbox.run(workload_path).
BeginRank ==
    [makedirs |-> 1, open_workload |-> 2, write_workload |-> 3, dup |-> 4,
     open_capture |-> 5, dup2 |-> 6, flush |-> 7, none |-> 8]
BeginPoints == DOMAIN BeginRank

\* extension = "py" if language == "python" else "js"
extension(language) == IF language = "python" THEN "py" ELSE "js"

\* workload_path of call c: workload_<uuid>.<extension>, the uuid taken as unique to
\* the call
WorkloadPath(c) == <<c, extension(hyperlight_language)>>

\* The steps of _run_hyperlight on standard output and the capture file, with the
\* point of the part before the await after which each has been taken.
StepAt == [save |-> 4, redirect |-> 6, invoke |-> 7]

\* the steps taken before the part before the await raises at point
begin_steps(point) ==
    SelectSeq(<<"save", "redirect", "invoke">>, LAMBDA st : StepAt[st] < BeginRank[point])

\* the steps of the finally clauses after a raise at point
cleanup_steps(point) ==
    (IF BeginRank[point] > 4 THEN <<"close">> ELSE <<>>)
    \o (IF BeginRank[point] > 5 THEN <<"delete">> ELSE <<>>)

\* the steps after sandbox.run: flushed, whether the flush of the inner finally
\* succeeded; read, whether the capture file was read
resume_steps(flushed, read) ==
    (IF flushed THEN <<"restore">> ELSE <<>>)
    \o (IF read THEN <<"read">> ELSE <<>>)
    \o <<"close", "delete">>

\* return of _execute after _run_hyperlight
Executed(c, text, exc, wr, captured, steps) ==
    EndsOp(c, "execute", text, exc, wr, captured, steps)

\* mutant: the workload file is not removed
remove_workload_skipped(fs, path) == fs

\* finally: if os.path.exists(workload_path): os.remove(workload_path)
remove_workload(fs, path) == fs \ {path}

\* mutant: the capture file is not removed
remove_capture_skipped(fs, c) == fs

\* finally: if os.path.exists(stdout_capture_path): os.remove(stdout_capture_path)
remove_capture(fs, c) == fs \ {c}

\* mutant: the duplicate of fd 1 is left open
close_fd_skipped(n) == n

\* finally: os.close(original_stdout_fd)
close_fd(n) == n - 1

\* os.dup2(original_stdout_fd, 1)
restore_stdout(target) == target

\* what a write of text s to fd 1 does to the capture files
WriteFd1(s) ==
    IF fd1 \in capfiles THEN [cap EXCEPT ![fd1] = Cat(@, s)] ELSE cap

\* _run_hyperlight up to the await of sandbox.run, with the handle in hand
run_hyperlight_begin(c) ==
    \/ \* _run_hyperlight raises at point, before the await
       /\ \E point \in BeginPoints \ {"none"}, msg \in ExcMsgs :
            LET r == BeginRank[point] IN
            /\ files' = IF r > 2
                        THEN remove_workload(files \cup {WorkloadPath(c)}, WorkloadPath(c))
                        ELSE files
            /\ openFds' = IF r > 4 THEN close_fd(openFds + 1) ELSE openFds
            /\ capfiles' = IF r > 5 THEN remove_capture(capfiles \cup {c}, c)
                           ELSE capfiles
            /\ fd1' = IF r > 6 THEN c ELSE fd1
            /\ IF point = "makedirs"
               THEN Fails(c, "Exception", msg)
               ELSE Executed(c, NonEmpty(SandboxError(msg)), FALSE, NoResult, <<>>,
                             begin_steps(point) \o cleanup_steps(point))
       /\ used' = [used EXCEPT ![c] = None]
       /\ UNCHANGED <<saved, cap, pybuf, hostWrites, sbxWrites>>
    \/ \* _run_hyperlight reaches the await
       /\ files' = files \cup {WorkloadPath(c)}
       /\ openFds' = openFds + 1
       /\ saved' = [saved EXCEPT ![c] = fd1]
       /\ capfiles' = capfiles \cup {c}
       /\ fd1' = c
       /\ cap' = [cap EXCEPT ![c] = pybuf]
       /\ pybuf' = <<>>
       /\ Suspends(c, "run")
       /\ used' = [used EXCEPT ![c] = sandbox']
       /\ UNCHANGED <<hostWrites, sbxWrites>>

\* _execute on the hyperlight environment, up to the await of sandbox.run
execute_begin_hyperlight(c) ==
    /\ execute_uses_sandbox(environment)
    /\ MayBegin(c)
    /\ \/ \* NanvixSandbox(config) raises: logged and re-raised
          /\ sandbox = None
          /\ GetSandbox(FALSE)
          /\ \E msg \in ExcMsgs : Fails(c, "Exception", msg)
          /\ UNCHANGED <<used, fdVars>>
       \/ \* the handle is there
          /\ GetSandbox(TRUE)
          /\ run_hyperlight_begin(c)
    /\ UNCHANGED <<retryVars, appVars, configVars, pyVars>>

\* what the sandbox run of call c writes: a line of output, or white space
SandboxChunks(c) == { << <<"o", c, 1>> >>, Lit("\n") }

\* the sandbox runtime writes to file descriptor 1 while the call awaits it
sandbox_write(c) ==
    /\ pc[c] = "run"
    /\ sbxWrites < MaxSandboxWrites
    /\ \E s \in SandboxChunks(c) : cap' = WriteFd1(s)
    /\ sbxWrites' = sbxWrites + 1
    /\ Quiet
    /\ UNCHANGED <<retryVars, appVars, configVars, toolVars, fd1, pybuf, files, capfiles, openFds, saved,
                   hostWrites, pc, alone, pyVars>>

\* an output of the sandbox run of call c longer than MAX_OUTPUT_SIZE
LongChunk(c) == << <<"o", c, 2 * MAX_OUTPUT_SIZE>> >>

\* the sandbox runtime writes a long output to file descriptor 1
sandbox_write_long(c) ==
    /\ pc[c] = "run"
    /\ sbxWrites < MaxSandboxWrites
    /\ cap' = WriteFd1(LongChunk(c))
    /\ sbxWrites' = sbxWrites + 1
    /\ Quiet
    /\ UNCHANGED <<retryVars, appVars, configVars, toolVars, fd1, pybuf, files, capfiles,
                   openFds, saved, hostWrites, pc, alone, pyVars>>

\* the WorkloadResult <<success, error>> of a sandbox run that returns
WorkloadResults == { <<TRUE, <<>> >>, <<FALSE, <<>> >>, <<FALSE, Lit("boom")>> }

\* _execute on the hyperlight environment, from the end of sandbox.run.
\* flushed: whether sys.stdout.flush() of the inner finally succeeds.
execute_resume_hyperlight(c) ==
    /\ pc[c] = "run"
    /\ \E flushed \in BOOLEAN :
         LET capNow == IF flushed THEN WriteFd1(pybuf) ELSE cap
             captured == Strip(capNow[c])
         IN  /\ pybuf' = IF flushed THEN <<>> ELSE pybuf
             /\ fd1' = IF flushed THEN restore_stdout(saved[c]) ELSE fd1
             /\ cap' = [capNow EXCEPT ![c] = <<>>]
             /\ \/ \* sandbox.run raised, or the flush did
                   \E msg \in ExcMsgs :
                       Executed(c, NonEmpty(SandboxError(msg)), FALSE, NoResult, <<>>,
                                begin_steps("none") \o resume_steps(flushed, FALSE))
                \/ \* sandbox.run returned and nothing raised
                   /\ flushed
                   /\ \E wr \in WorkloadResults :
                        Executed(c, NonEmpty(WorkloadOutcome(wr[1], wr[2], captured)),
                                 FALSE, wr, captured,
                                 begin_steps("none") \o resume_steps(flushed, TRUE))
    /\ openFds' = close_fd(openFds)
    /\ capfiles' = remove_capture(capfiles, c)
    /\ files' = remove_workload(files, WorkloadPath(c))
    /\ saved' = [saved EXCEPT ![c] = OriginalStdout]
    /\ used' = [used EXCEPT ![c] = None]
    /\ UNCHANGED <<retryVars, appVars, configVars, sandbox, constructed, attempts, hostWrites,
                   sbxWrites, pyVars>>

\* ------------------------------------------------------------- clear_cache
\* f"Failed to clear cache: {e}"
FailedToClear(msg) == Cat(Lit("Failed to clear cache: "), msg)

\* return of clear_cache
Cleared(c, text) == EndsOp(c, "clear_cache", text, FALSE, NoResult, <<>>, <<>>)

NotApplicable == Lit("Cache clearing only applicable for hyperlight environment.")

\* mutant: clear_cache goes to the sandbox on every environment
clear_cache_always_applicable(env) == TRUE

\* not (self.environment != "hyperlight")
clear_cache_applicable(env) == env = "hyperlight"

\* clear_cache on a tool of another environment than hyperlight
clear_cache_not_applicable(c) ==
    /\ ~clear_cache_applicable(environment)
    /\ MayBegin(c)
    /\ InFlight = {}
    /\ Cleared(c, NotApplicable)
    /\ UNCHANGED <<retryVars, appVars, configVars, toolVars, fdVars, pyVars>>

\* clear_cache on the hyperlight environment, up to the await of sandbox.clear_cache
clear_cache_begin(c) ==
    /\ clear_cache_applicable(environment)
    /\ MayBegin(c)
    /\ \/ \* NanvixSandbox(config) raises: caught by clear_cache
          /\ sandbox = None
          /\ GetSandbox(FALSE)
          /\ \E msg \in ExcMsgs : Cleared(c, FailedToClear(msg))
          /\ UNCHANGED used
       \/ /\ GetSandbox(TRUE)
          /\ used' = [used EXCEPT ![c] = sandbox']
          /\ Suspends(c, "clear")
    /\ UNCHANGED <<retryVars, appVars, configVars, fdVars, pyVars>>

\* clear_cache from the end of sandbox.clear_cache
clear_cache_resume(c) ==
    /\ pc[c] = "clear"
    /\ \/ Cleared(c, Lit("Cache cleared successfully."))
       \/ \E msg \in ExcMsgs : Cleared(c, FailedToClear(msg))
    /\ used' = [used EXCEPT ![c] = None]
    /\ UNCHANGED <<retryVars, appVars, configVars, sandbox, constructed, attempts, fdVars, pyVars>>

\* ------------------------------------------------------------- the host
\* the number of calls begun so far: a host write is stamped with it, so that text
\* stamped less than c was written before call c began
Begun == Cardinality({c \in Calls : pc[c] # "idle"})

\* the host process prints to sys.stdout, which buffers the text
host_print ==
    /\ environment = "hyperlight"
    /\ hostWrites < MaxHostWrites
    /\ hostWrites' = hostWrites + 1
    /\ pybuf' = Cat(pybuf, << <<"h", Begun, 1>> >>)
    /\ Quiet
    /\ UNCHANGED <<retryVars, appVars, configVars, toolVars, fd1, files, capfiles, cap, openFds, saved,
                   sbxWrites, pc, alone, pyVars>>

\* sys.stdout is flushed by the host: its buffer is written to fd 1
host_flush ==
    /\ pybuf # <<>>
    /\ cap' = WriteFd1(pybuf)
    /\ pybuf' = <<>>
    /\ Quiet
    /\ UNCHANGED <<retryVars, appVars, configVars, toolVars, fd1, files, capfiles, openFds, saved,
                   hostWrites, sbxWrites, pc, alone, pyVars>>

\* ------------------------------------------------------------- _run_python
\* bytes.decode() raises UnicodeDecodeError on a byte that is not UTF-8
Decodable(bytes) == \A i \in 1..Len(bytes) : bytes[i][1] # "\\xff"

TruncationMarker == Lit("\n... [output truncated]")

\* mutant: if len(output) >= MAX_OUTPUT_SIZE
Truncate_at_limit(output) ==
    IF StrLen(output) >= MAX_OUTPUT_SIZE
    THEN Take(output, MAX_OUTPUT_SIZE) \o TruncationMarker
    ELSE output

\* if len(output) > MAX_OUTPUT_SIZE: return output[:MAX_OUTPUT_SIZE] + marker
Truncate(output) ==
    IF StrLen(output) > MAX_OUTPUT_SIZE
    THEN Take(output, MAX_OUTPUT_SIZE) \o TruncationMarker
    ELSE output

\* output = stdout_str + stderr_str
CombinedOutput(out, err) == Cat(out, err)

\* proc.returncode of a child that exited: 0, or not (an uncaught exception,
\* sys.exit(1))
ReturnCodes == {0, 1}

\* lines 87-94: the result of a child that exited in time; proc.returncode is not
\* read
run_python_result(rc, out, err) == Truncate(CombinedOutput(out, err))

\* return of _execute after a child that exited with status rc
ChildReturns(c, text, rc) ==
    EndsChild(c, "execute", text, FALSE, NoResult, <<>>, <<>>, rc)

\* the languages a submitted source may be written in
CodeLanguages == {"python", "javascript"}

\* mutant: the timeout branch does not kill the child
proc_kill_skipped(k, c) == k

\* except asyncio.TimeoutError: proc.kill()
proc_kill(k, c) == [k EXCEPT ![c] = TRUE]

\* mutant: the timeout branch returns the partial output before the message
timeout_result_with_partial(n, out, err) == Cat(Cat(out, err), TimeoutResult(n))

\* the result of the timeout branch, given what the child had written so far
timeout_result(n, out, err) == TimeoutResult(n)

\* mutant: the child inherits the variables of the host process
SubprocessEnv_inherited(parent) == parent

\* env={} of create_subprocess_exec: the child is given no variable, whatever the
\* host process has
SubprocessEnv(parent) == {}

\* The calls of the subprocess backend share no state (each has its own child,
\* pipes and timers): they are run one at a time.
\* _execute on the python environment, up to wait_for(proc.communicate())
execute_begin_python(c) ==
    /\ ~execute_uses_sandbox(environment)
    /\ MayBegin(c)
    /\ InFlight = {}
    /\ \/ \* sys.executable -c code is started, whatever the code is
          /\ \E lang \in CodeLanguages : code' = [code EXCEPT ![c] = lang]
          /\ child_env' = [child_env EXCEPT ![c] = SubprocessEnv(os_environ)]
          /\ Suspends(c, "communicate")
          /\ proc' = [proc EXCEPT ![c] = "running"]
       \/ \* create_subprocess_exec raised
          /\ \E msg \in ExcMsgs : Fails(c, "Exception", msg)
          /\ UNCHANGED <<proc, code, child_env>>
    /\ UNCHANGED <<retryVars, appVars, configVars, toolVars, fdVars, pipeOut, pipeErr, childWrites,
                   killed, elapsed, grace>>

StdoutChunks == { << <<"x", 0, 1>> >>, << <<"x", 0, MAX_OUTPUT_SIZE>> >>, Lit("\\xff") }
StderrChunks == { << <<"e", 0, 1>> >> }

\* what code that prints its environment writes: the variables it was given
EnvChunks(env) == { << <<v, 0, 1>> >> : v \in env }

\* the child writes to its standard output or standard error
child_write(c) ==
    /\ pc[c] = "communicate"
    /\ childWrites[c] < MaxChildWrites
    /\ childWrites' = [childWrites EXCEPT ![c] = @ + 1]
    /\ \/ /\ \E s \in StdoutChunks \cup EnvChunks(child_env[c]) :
               pipeOut' = [pipeOut EXCEPT ![c] = Cat(@, s)]
          /\ UNCHANGED pipeErr
       \/ /\ \E s \in StderrChunks : pipeErr' = [pipeErr EXCEPT ![c] = Cat(@, s)]
          /\ UNCHANGED pipeOut
    /\ Quiet
    /\ UNCHANGED <<retryVars, appVars, configVars, toolVars, fdVars, pc, alone, code, child_env, proc, killed, elapsed,
                   grace>>

\* a second passes while the call waits in wait_for(proc.communicate(), timeout)
tick(c) ==
    /\ pc[c] = "communicate"
    /\ elapsed[c] < timeout
    /\ elapsed' = [elapsed EXCEPT ![c] = @ + 1]
    /\ Quiet
    /\ UNCHANGED <<retryVars, appVars, configVars, toolVars, fdVars, pc, alone, code, child_env, pipeOut, pipeErr,
                   childWrites, proc, killed, grace>>

\* _run_python returns: its locals are gone
Forget(c) ==
    /\ code' = [code EXCEPT ![c] = "none"]
    /\ pipeOut' = [pipeOut EXCEPT ![c] = <<>>]
    /\ pipeErr' = [pipeErr EXCEPT ![c] = <<>>]
    /\ childWrites' = [childWrites EXCEPT ![c] = 0]
    /\ elapsed' = [elapsed EXCEPT ![c] = 0]
    /\ killed' = [killed EXCEPT ![c] = FALSE]
    /\ grace' = [grace EXCEPT ![c] = 0]
    /\ child_env' = [child_env EXCEPT ![c] = NoChild]

\* proc.communicate() completes before the timeout: lines 87-94, then _execute
communicate_done(c) ==
    /\ pc[c] = "communicate"
    /\ elapsed[c] < timeout
    /\ proc' = [proc EXCEPT ![c] = "exited"]
    /\ IF Decodable(pipeOut[c]) /\ Decodable(pipeErr[c])
       THEN \E rc \in ReturnCodes :
              ChildReturns(c, NonEmpty(run_python_result(rc, pipeOut[c], pipeErr[c])), rc)
       ELSE Fails(c, "Exception", Lit("UnicodeDecodeError"))
    /\ Forget(c)
    /\ UNCHANGED <<retryVars, appVars, configVars, toolVars, fdVars>>

\* the timeout expires first: asyncio.TimeoutError, proc.kill()
communicate_timeout(c) ==
    /\ pc[c] = "communicate"
    /\ elapsed[c] = timeout
    /\ killed' = proc_kill(killed, c)
    /\ pc' = [pc EXCEPT ![c] = "grace"]
    /\ Quiet
    /\ UNCHANGED <<retryVars, appVars, configVars, toolVars, fdVars, alone, code, child_env, pipeOut,
                   pipeErr, childWrites, proc, elapsed, grace>>

\* a second passes while the call waits in wait_for(proc.wait(), timeout=5)
grace_tick(c) ==
    /\ pc[c] = "grace"
    /\ grace[c] < GRACE_PERIOD
    /\ grace' = [grace EXCEPT ![c] = @ + 1]
    /\ Quiet
    /\ UNCHANGED <<retryVars, appVars, configVars, toolVars, fdVars, pc, alone, code, child_env, pipeOut, pipeErr,
                   childWrites, proc, killed, elapsed>>

\* the killed child exits within the grace period: proc.wait() returns
grace_exit(c) ==
    /\ pc[c] = "grace"
    /\ grace[c] < GRACE_PERIOD
    /\ proc' = [proc EXCEPT ![c] = "exited"]
    /\ Returns(c, NonEmpty(timeout_result(timeout, pipeOut[c], pipeErr[c])))
    /\ Forget(c)
    /\ UNCHANGED <<retryVars, appVars, configVars, toolVars, fdVars>>

\* the grace period expires first: asyncio.TimeoutError is passed over
grace_expire(c) ==
    /\ pc[c] = "grace"
    /\ grace[c] = GRACE_PERIOD
    /\ Returns(c, NonEmpty(timeout_result(timeout, pipeOut[c], pipeErr[c])))
    /\ Forget(c)
    /\ UNCHANGED <<retryVars, appVars, configVars, toolVars, fdVars, proc>>

\* ------------------------------------------------------------- specification
Next ==
    \/ \E c \in Calls : execute_begin_hyperlight(c)
    \/ \E c \in Calls : sandbox_write(c)
    \/ \E c \in Calls : execute_resume_hyperlight(c)
    \/ \E c \in Calls : clear_cache_not_applicable(c)
    \/ \E c \in Calls : clear_cache_begin(c)
    \/ \E c \in Calls : clear_cache_resume(c)
    \/ host_print
    \/ host_flush
    \/ \E c \in Calls : execute_begin_python(c)
    \/ \E c \in Calls : child_write(c)
    \/ \E c \in Calls : tick(c)
    \/ \E c \in Calls : communicate_done(c)
    \/ \E c \in Calls : communicate_timeout(c)
    \/ \E c \in Calls : grace_tick(c)
    \/ \E c \in Calls : grace_exit(c)
    \/ \E c \in Calls : grace_expire(c)

Spec == Init /\ [][Next]_vars

\* The subprocess backend alone, with the timers of asyncio.wait_for: a timer that
\* is pending fires, and a second that can pass passes.
PyInit ==
    /\ \E t \in 1..MaxTimeout : ToolInit("python", t, DEFAULT_LANGUAGE)
    /\ MiddlewareInit(DEFAULT_MAX_RETRIES, "ctx1")
    /\ HostInit(Environ)

PyNext ==
    \/ \E c \in Calls : execute_begin_python(c)
    \/ \E c \in Calls : child_write(c)
    \/ \E c \in Calls : tick(c)
    \/ \E c \in Calls : communicate_done(c)
    \/ \E c \in Calls : communicate_timeout(c)
    \/ \E c \in Calls : grace_tick(c)
    \/ \E c \in Calls : grace_exit(c)
    \/ \E c \in Calls : grace_expire(c)
    \/ \E c \in Calls : clear_cache_not_applicable(c)

PySpec ==
    /\ PyInit
    /\ [][PyNext]_vars
    /\ \A c \in Calls :
         /\ WF_vars(tick(c))
         /\ WF_vars(communicate_timeout(c))
         /\ WF_vars(grace_tick(c))
         /\ WF_vars(grace_expire(c))

\* The subprocess backend in host processes that differ in their variables.
EnvInit ==
    /\ ToolInit("python", MaxTimeout, DEFAULT_LANGUAGE)
    /\ MiddlewareInit(DEFAULT_MAX_RETRIES, "ctx1")
    /\ \E parent \in SUBSET Environ : HostInit(parent)

EnvSpec == EnvInit /\ [][PyNext]_vars

\* ------------------------------------------------------------- languages
\* hyperlight_language is annotated Literal["javascript", "python"]; nothing checks
\* the value (function_app.py passes the environment variable HYPERLIGHT_LANGUAGE
\* as it is).
Languages == {"javascript", "python", "c", "ruby"}

LangInit ==
    /\ \E lang \in Languages : ToolInit("hyperlight", DEFAULT_TIMEOUT, lang)
    /\ MiddlewareInit(DEFAULT_MAX_RETRIES, "ctx1")
    /\ HostInit(Environ)

LangNext ==
    \/ \E c \in Calls : execute_begin_hyperlight(c)
    \/ \E c \in Calls : sandbox_write(c)
    \/ \E c \in Calls : execute_resume_hyperlight(c)

LangSpec == LangInit /\ [][LangNext]_vars

\* ------------------------------------------------------------- start-up
INTERPRETER_AGENT_INSTRUCTIONS_PYTHON == "instructions: python subprocess"
INTERPRETER_AGENT_INSTRUCTIONS_HYPERLIGHT_JS == "instructions: hyperlight javascript"
INTERPRETER_AGENT_INSTRUCTIONS_HYPERLIGHT_PY == "instructions: hyperlight python"

\* mutant: the language is looked at before the environment
get_instructions_language_first(env, language) ==
    IF language = "python"
    THEN INTERPRETER_AGENT_INSTRUCTIONS_HYPERLIGHT_PY
    ELSE IF env = "hyperlight"
         THEN INTERPRETER_AGENT_INSTRUCTIONS_HYPERLIGHT_JS
         ELSE INTERPRETER_AGENT_INSTRUCTIONS_PYTHON

\* shared.get_instructions(environment, hyperlight_language)
get_instructions(env, language) ==
    IF env = "hyperlight"
    THEN IF language = "python"
         THEN INTERPRETER_AGENT_INSTRUCTIONS_HYPERLIGHT_PY
         ELSE INTERPRETER_AGENT_INSTRUCTIONS_HYPERLIGHT_JS
    ELSE INTERPRETER_AGENT_INSTRUCTIONS_PYTHON

\* mutant: the environment asked for is kept
fall_back_never(env, available) == env

\* if environment == "hyperlight" and not HYPERLIGHT_AVAILABLE: environment = "python"
fall_back(env, available) ==
    IF env = "hyperlight" /\ ~available THEN "python" ELSE env

\* CodeExecutionTool.__init__: raise ImportError when the environment is hyperlight
\* and hyperlight_nanvix could not be imported
init_raises(env, available) == env = "hyperlight" /\ ~available

\* the values CODE_ENVIRONMENT and the argument environment may have: nothing
\* checks them
Environments == {"python", "hyperlight", "docker"}

\* create_interpreter_agent: instructions selected by environment and language
select_instructions(env, language) ==
    IF env = "hyperlight"
    THEN IF language = "python"
         THEN INTERPRETER_AGENT_INSTRUCTIONS_HYPERLIGHT_PY
         ELSE INTERPRETER_AGENT_INSTRUCTIONS_HYPERLIGHT_JS
    ELSE INTERPRETER_AGENT_INSTRUCTIONS_PYTHON

\* a start-up by caller: the environment env it settled on is handed to
\* CodeExecutionTool(...), which raises ImportError or gives the tool; with the
\* tool, the agent is created with the instructions instr
StartsUp(caller, env, instr) ==
    /\ ~started
    /\ startup.by = "none"
    /\ IF init_raises(env, HYPERLIGHT_AVAILABLE)
       THEN /\ startup' = [startup EXCEPT !.by = caller, !.error = "ImportError"]
            /\ UNCHANGED <<started, environment, instructions>>
       ELSE /\ startup' = [startup EXCEPT !.by = caller]
            /\ started' = TRUE
            /\ environment' = env
            /\ instructions' = instr
    /\ Quiet
    /\ UNCHANGED <<timeout, log_directory, tmp_directory, hyperlight_language, os_environ,
                   HYPERLIGHT_AVAILABLE, streamVars, toolVars, fdVars, pc, alone, pyVars,
                   retryVars>>

\* function_app.py, module level: environment and hyperlight_language are read from
\* CODE_ENVIRONMENT and HYPERLIGHT_LANGUAGE, the environment falls back to python
\* when hyperlight_nanvix is missing, the tool is constructed with them and the
\* agent is created with get_instructions(environment, hyperlight_language)
function_app_start ==
    LET env == fall_back(environment, HYPERLIGHT_AVAILABLE)
    IN  StartsUp("function_app", env, get_instructions(env, hyperlight_language))

\* create_interpreter_agent(environment, timeout, hyperlight_language): the same
\* fallback, the tool, then the instructions selected in place
create_interpreter_agent ==
    LET env == fall_back(environment, HYPERLIGHT_AVAILABLE)
    IN  StartsUp("create_interpreter_agent", env,
                 select_instructions(env, hyperlight_language))

\* the function app before its module has run, then the tool it has constructed
AppInit ==
    /\ \E env \in Environments, lang \in Languages : ToolInit(env, DEFAULT_TIMEOUT, lang)
    /\ MiddlewareInit(DEFAULT_MAX_RETRIES, "ctx1")
    /\ os_environ = Environ
    /\ HYPERLIGHT_AVAILABLE \in BOOLEAN
    /\ started = FALSE
    /\ instructions = NoInstructions
    /\ startup = [requested |-> environment, by |-> "none", error |-> "none"]
    /\ StreamArgs(STREAM_MAX_RETRIES, STREAM_MIN_WAIT, STREAM_MAX_WAIT)

AppNext ==
    \/ function_app_start
    \/ create_interpreter_agent
    \/ \E c \in Calls : execute_begin_hyperlight(c)
    \/ \E c \in Calls : sandbox_write(c)
    \/ \E c \in Calls : execute_resume_hyperlight(c)
    \/ \E c \in Calls : clear_cache_not_applicable(c)

AppSpec == AppInit /\ [][AppNext]_vars

\* The sandbox backend with workloads that write much.
OutputInit ==
    /\ ToolInit("hyperlight", DEFAULT_TIMEOUT, DEFAULT_LANGUAGE)
    /\ MiddlewareInit(DEFAULT_MAX_RETRIES, "ctx1")
    /\ HostInit(Environ)

OutputNext ==
    \/ \E c \in Calls : execute_begin_hyperlight(c)
    \/ \E c \in Calls : sandbox_write(c)
    \/ \E c \in Calls : sandbox_write_long(c)
    \/ \E c \in Calls : execute_resume_hyperlight(c)

OutputSpec == OutputInit /\ [][OutputNext]_vars

\* ------------------------------------------------------------- threads
\* _execute called on one hyperlight tool from several threads: a thread can be
\* switched out between the statements of _get_sandbox, in particular between the
\* test of self._sandbox (line 275) and its assignment (line 281).  The rest of
\* each call is taken in the same steps as for tasks.
\* if self._sandbox is None
thread_get_sandbox_check(c) ==
    /\ environment = "hyperlight"
    /\ MayBegin(c)
    /\ IF sandbox = None
       THEN /\ Suspends(c, "construct")
            /\ UNCHANGED used
       ELSE /\ Suspends(c, "got")
            /\ used' = [used EXCEPT ![c] = sandbox]
    /\ UNCHANGED <<retryVars, appVars, configVars, sandbox, constructed, attempts, fdVars, pyVars>>

\* self._sandbox = NanvixSandbox(config), by a thread that found it None
thread_get_sandbox_construct(c) ==
    /\ pc[c] = "construct"
    /\ attempts' = attempts + 1
    /\ \/ /\ sandbox' = get_sandbox(None, constructed, TRUE).sandbox
          /\ constructed' = get_sandbox(None, constructed, TRUE).constructed
          /\ used' = [used EXCEPT ![c] = sandbox']
          /\ Suspends(c, "got")
       \/ /\ \E msg \in ExcMsgs : Fails(c, "Exception", msg)
          /\ UNCHANGED <<sandbox, constructed, used>>
    /\ UNCHANGED <<retryVars, appVars, configVars, fdVars, pyVars>>

\* result = await _run_hyperlight(code, sandbox, ...), up to the await of sandbox.run
thread_run_hyperlight(c) ==
    /\ pc[c] = "got"
    /\ sandbox' = sandbox
    /\ run_hyperlight_begin(c)
    /\ UNCHANGED <<retryVars, appVars, configVars, constructed, attempts, pyVars>>

ThreadInit ==
    /\ ToolInit("hyperlight", DEFAULT_TIMEOUT, DEFAULT_LANGUAGE)
    /\ MiddlewareInit(DEFAULT_MAX_RETRIES, "ctx1")
    /\ HostInit(Environ)

ThreadNext ==
    \/ \E c \in Calls : thread_get_sandbox_check(c)
    \/ \E c \in Calls : thread_get_sandbox_construct(c)
    \/ \E c \in Calls : thread_run_hyperlight(c)
    \/ \E c \in Calls : sandbox_write(c)
    \/ \E c \in Calls : execute_resume_hyperlight(c)

ThreadSpec == ThreadInit /\ [][ThreadNext]_vars

\* ------------------------------------------------------------- RetryOnRateLimitMiddleware
\* The messages next(context) may fail with, as sequences of words.
ErrorMessages ==
    { <<"429", " Too Many Requests">>,
      <<"Too Many Requests", ": please slow down">>,
      <<"TOO MANY REQUESTS">>,
      <<"Error code: ", "429">>,
      <<"Rate limited: ", "Too Many Requests">>,
      <<"Some other error">> }

\* str.lower() of a word ((?i) of the pattern)
Lower(w) ==
    IF w \in {"Too Many Requests", "TOO MANY REQUESTS"} THEN "too many requests" ELSE w

RateLimitWords == {"too many requests", "429"}

\* mutant: no message is retried
retry_never(msg) == FALSE

\* mutant: every message is retried
retry_always(msg) == TRUE

\* mutant: re.search, the pattern is looked for anywhere in the message
retry_if_message_contains(msg) ==
    \E j \in 1..Len(msg) : Lower(msg[j]) \in RateLimitWords

\* retry_if_exception_message(match=r"(?i)(too many requests|429)"): re.match anchors
\* the pattern at the start of the message
retry_if_exception_message(msg) == Lower(msg[1]) \in RateLimitWords

\* mutant: stop_after_attempt(1)
stop_after_first_attempt(attempt) == TRUE

\* mutant: stop_after_attempt(self.max_retries)
stop_after_attempt_one_less(attempt) == attempt >= max_retries

\* stop_after_attempt(self.max_retries + 1)
stop_after_attempt(attempt) == attempt >= max_retries + 1

\* reraise=True: the error of the last attempt is raised, not a RetryError
reraise == TRUE

Min(a, b) == IF a <= b THEN a ELSE b
Max(a, b) == IF a >= b THEN a ELSE b

\* jitter: float = 1 of tenacity's wait_exponential_jitter, in tenths of a second
JITTER == 10

\* random.uniform(0, self.jitter)
Jitters == {0, JITTER \div 2, JITTER}

\* tenacity's wait_exponential_jitter(initial, max)(retry_state):
\* max(0, min(initial * 2 ** (attempt_number - 1) + jitter, max))
wait_exponential_jitter(initial, maximum, attempt, jitter) ==
    Max(0, Min(initial * 2^(attempt - 1) + jitter, maximum))

\* mutant: the attempts are counted on the middleware object, over all its calls
attempt_number_of_object(r) ==
    1 + Max(attempt_number["r1"], attempt_number["r2"])

\* the RetryCallState of a call of _call_with_retry starts at attempt 1
attempt_number_of_call(r) == 1

\* await next(context)
NextArgument(ctx) == ctx

\* await _call_with_retry(): the first attempt of call r begins
process_begin(r) ==
    /\ rstate[r] = "idle"
    /\ rstate' = [rstate EXCEPT ![r] = "calling"]
    /\ attempt_number' = [attempt_number EXCEPT ![r] = attempt_number_of_call(r)]
    /\ UNCHANGED <<middlewareVars, context, upcoming_sleep, errs, calls, passed, waits,
                   outcome>>
    /\ UNCHANGED <<appVars, configVars, toolVars, fdVars, callVars, pyVars>>

\* next(context) returns to call r
attempt_succeeds(r) ==
    /\ rstate[r] = "calling"
    /\ calls' = [calls EXCEPT ![r] = @ + 1]
    /\ passed' = [passed EXCEPT ![r] = @ \cup {NextArgument(context[r])}]
    /\ rstate' = [rstate EXCEPT ![r] = "success"]
    /\ outcome' = [outcome EXCEPT ![r] = [kind |-> "returned", error |-> <<>>]]
    /\ UNCHANGED <<middlewareVars, context, attempt_number, upcoming_sleep, errs, waits>>
    /\ UNCHANGED <<appVars, configVars, toolVars, fdVars, callVars, pyVars>>

\* next(context) raises to call r an error with message msg
attempt_fails(r) ==
    /\ rstate[r] = "calling"
    /\ \E msg \in ErrorMessages :
         /\ errs' = [errs EXCEPT ![r] = Append(@, msg)]
         /\ IF ~retry_if_exception_message(msg)
            THEN /\ rstate' = [rstate EXCEPT ![r] = "failed"]
                 /\ outcome' = [outcome EXCEPT ![r] = [kind |-> "raised", error |-> msg]]
                 /\ UNCHANGED upcoming_sleep
            ELSE IF stop_after_attempt(attempt_number[r])
            THEN /\ rstate' = [rstate EXCEPT ![r] = "failed"]
                 /\ outcome' = [outcome EXCEPT ![r] =
                                   IF reraise THEN [kind |-> "raised", error |-> msg]
                                   ELSE [kind |-> "raised", error |-> <<"RetryError">>]]
                 /\ UNCHANGED upcoming_sleep
            ELSE /\ rstate' = [rstate EXCEPT ![r] = "waiting"]
                 /\ \E jitter \in Jitters :
                      upcoming_sleep' = [upcoming_sleep EXCEPT ![r] =
                          wait_exponential_jitter(min_wait, max_wait, attempt_number[r],
                                                  jitter)]
                 /\ UNCHANGED outcome
    /\ calls' = [calls EXCEPT ![r] = @ + 1]
    /\ passed' = [passed EXCEPT ![r] = @ \cup {NextArgument(context[r])}]
    /\ UNCHANGED <<middlewareVars, context, attempt_number, waits>>
    /\ UNCHANGED <<appVars, configVars, toolVars, fdVars, callVars, pyVars>>

\* the sleep of wait_exponential_jitter ends: the next attempt of call r begins
wait_done(r) ==
    /\ rstate[r] = "waiting"
    /\ waits' = [waits EXCEPT ![r] = @ + 1]
    /\ attempt_number' = [attempt_number EXCEPT ![r] = @ + 1]
    /\ upcoming_sleep' = [upcoming_sleep EXCEPT ![r] = 0]
    /\ rstate' = [rstate EXCEPT ![r] = "calling"]
    /\ UNCHANGED <<middlewareVars, context, errs, calls, passed, outcome>>
    /\ UNCHANGED <<appVars, configVars, toolVars, fdVars, callVars, pyVars>>

\* the waits the middleware is constructed with: the defaults, and a max_wait that
\* the exponential reaches
WaitConfigs == { <<DEFAULT_MIN_WAIT, DEFAULT_MAX_WAIT>>,
                 <<DEFAULT_MIN_WAIT, 3 * DEFAULT_MIN_WAIT>> }

\* one call of process()
RetryInit ==
    /\ ToolInit("python", DEFAULT_TIMEOUT, DEFAULT_LANGUAGE)
    /\ \E n \in 0..MaxRetries, ctx \in Contexts, w \in WaitConfigs :
          MiddlewareInitWith(n, w[1], w[2], [r \in Requests |-> ctx])
    /\ HostInit(Environ)

RetryNext ==
    \/ process_begin("r1")
    \/ attempt_succeeds("r1")
    \/ attempt_fails("r1")
    \/ wait_done("r1")

RetrySpec == RetryInit /\ [][RetryNext]_vars

\* Two calls of process() on one middleware object, each with its own context: one
\* after the other, or in flight at the same time (tasks of one event loop,
\* interleaved at await next(context) and at the sleep between attempts).
SessionInit ==
    /\ ToolInit("python", DEFAULT_TIMEOUT, DEFAULT_LANGUAGE)
    /\ MiddlewareInitWith(MaxSessionRetries, DEFAULT_MIN_WAIT, DEFAULT_MAX_WAIT,
                          [r \in Requests |-> IF r = "r1" THEN "ctx1" ELSE "ctx2"])
    /\ HostInit(Environ)

SessionNext ==
    \/ \E r \in Requests : process_begin(r)
    \/ \E r \in Requests : attempt_succeeds(r)
    \/ \E r \in Requests : attempt_fails(r)
    \/ \E r \in Requests : wait_done(r)

SessionSpec == SessionInit /\ [][SessionNext]_vars

\* ------------------------------------------------------------- run_streaming_with_retry
\* the exceptions agent.run_stream may raise: the one the except clause names, and
\* any other
StreamExceptionTypes == {"ServiceResponseException", "Exception"}

\* mutant: the token is looked for at the start of the message only
is_rate_limited_anchored(msg) == Lower(msg[1]) \in RateLimitWords

\* "too many requests" in error_msg or "429" in error_msg, error_msg = str(e).lower():
\* the token is looked for anywhere in the message
is_rate_limited(msg) ==
    \E j \in 1..Len(msg) : Lower(msg[j]) \in RateLimitWords

\* random.uniform(0, wait_time * 0.1)
StreamJitters(wait) == {0, wait \div 10}

\* min(min_wait * (2 ** (attempt - 1)), max_wait)
stream_wait_time(lo, hi, n) == Min(lo * 2^(n - 1), hi)

\* what run_streaming_with_retry prints: the text of a chunk of attempt n, and its
\* two notices
Chunk(n) == <<"chunk", n>>
RateLimitedNotice(n) == <<"[Rate limited, retrying ...]", n>>
ExceededNotice(n) == <<"[Rate limit exceeded]", n>>

StreamUnchanged ==
    UNCHANGED <<agentVars, configVars, toolVars, fdVars, callVars, pyVars, retryVars>>

\* top of the loop: attempt += 1, agent.run_stream(query) is started; at the first
\* call and after each sleep
stream_attempt ==
    /\ stream.state \in {"idle", "sleeping"}
    /\ stream' = [stream EXCEPT !.state = "streaming", !.attempt = @ + 1, !.chunks = 0,
                                !.wait_time = 0, !.error = <<>>, !.error_type = "none"]
    /\ UNCHANGED printed
    /\ StreamUnchanged

\* the stream yields a chunk: its text, if it has one, is printed and flushed
stream_chunk ==
    /\ stream.state = "streaming"
    /\ stream.chunks < MaxChunks
    /\ stream' = [stream EXCEPT !.chunks = @ + 1]
    /\ \E has_text \in BOOLEAN :
         printed' = IF has_text THEN Append(printed, Chunk(stream.attempt)) ELSE printed
    /\ StreamUnchanged

\* the stream ends: break
stream_ends ==
    /\ stream.state = "streaming"
    /\ stream' = [stream EXCEPT !.state = "returned"]
    /\ UNCHANGED printed
    /\ StreamUnchanged

\* the stream raises an exception of the given type with message msg
stream_raises ==
    /\ stream.state = "streaming"
    /\ \E type \in StreamExceptionTypes, msg \in ErrorMessages :
         LET raised == [stream EXCEPT !.state = "raised", !.error = msg,
                                      !.error_type = type]
         IN  \* except ServiceResponseException as e
             IF type = "ServiceResponseException" /\ is_rate_limited(msg)
             THEN IF stream.attempt > stream.max_retries
                  THEN /\ printed' = Append(printed, ExceededNotice(stream.attempt))
                       /\ stream' = raised
                  ELSE \E jitter \in StreamJitters(stream_wait_time(stream.min_wait,
                                                    stream.max_wait, stream.attempt)) :
                       /\ printed' = Append(printed, RateLimitedNotice(stream.attempt))
                       /\ stream' = [stream EXCEPT
                              !.state = "sleeping",
                              !.error = msg,
                              !.error_type = type,
                              !.wait_time = stream_wait_time(stream.min_wait,
                                                stream.max_wait, stream.attempt) + jitter]
             ELSE /\ stream' = raised
                  /\ UNCHANGED printed
    /\ StreamUnchanged

StreamInit ==
    /\ ToolInit("python", DEFAULT_TIMEOUT, DEFAULT_LANGUAGE)
    /\ MiddlewareInit(DEFAULT_MAX_RETRIES, "ctx1")
    /\ os_environ = Environ
    /\ HYPERLIGHT_AVAILABLE = TRUE
    /\ started = TRUE
    /\ instructions = NoInstructions
    /\ startup = Direct
    /\ \E n \in 0..MaxStreamRetries : StreamArgs(n, STREAM_MIN_WAIT, STREAM_MAX_WAIT)

StreamNext ==
    \/ stream_attempt
    \/ stream_chunk
    \/ stream_ends
    \/ stream_raises

StreamSpec == StreamInit /\ [][StreamNext]_vars

\* The two retrying callers of one agent: a call of process() of its middleware and
\* a call of run_streaming_with_retry, each with its own attempts and waits.
CallersInit ==
    /\ ToolInit("python", DEFAULT_TIMEOUT, DEFAULT_LANGUAGE)
    /\ MiddlewareInit(MaxSessionRetries, "ctx1")
    /\ os_environ = Environ
    /\ HYPERLIGHT_AVAILABLE = TRUE
    /\ started = TRUE
    /\ instructions = NoInstructions
    /\ startup = Direct
    /\ StreamArgs(MaxSessionRetries, STREAM_MIN_WAIT, STREAM_MAX_WAIT)

CallersNext ==
    \/ process_begin("r1")
    \/ attempt_succeeds("r1")
    \/ attempt_fails("r1")
    \/ wait_done("r1")
    \/ stream_attempt
    \/ stream_chunk
    \/ stream_ends
    \/ stream_raises

CallersSpec == CallersInit /\ [][CallersNext]_vars

\* ------------------------------------------------------------- claims
\* C1: _execute never raises to its caller, on either backend: an exception raised
\* by _get_sandbox, _run_hyperlight or _run_python comes back as the returned text
\* "Error executing code: ...".  Every return carries a text and no exception.
C1_NeverRaises == ret.raised = FALSE

\* C1 witness: an exception of _run_python (the decode of the child's output) has
\* been returned as the error text.
C1_Witness ==
    /\ environment = "python"
    /\ ret.call # 0
    /\ ret.text = ErrorExecuting(Lit("UnicodeDecodeError"))

\* C2: the text _execute returns is never empty, on every path.
C2_NeverEmpty == ret.call # 0 /\ ~ret.raised => ret.text # <<>>

\* C2 witness: a child that wrote nothing: the empty result became "(No output)".
C2_Witness == ret.call # 0 /\ ret.text = Lit("(No output)")

C4_StdoutRestored == \A c \in Calls : Done(c) => fd1 # c

\* C5: the redirect-to-restore windows of two in-flight calls never overlap.
C5_WindowsDisjoint ==
    \A a, b \in Calls : a # b => ~(pc[a] = "run" /\ pc[b] = "run")

\* the text holds nothing but what the sandbox run of call c wrote
OnlyOwnOutput(text, c) ==
    \A i \in 1..Len(text) : text[i][1] \in {"o", "h"} => text[i][2] = c

\* C6: a VM-sandbox call that ran with no other call in flight (one call after the
\* other) returns only what was written to standard output during its own sandbox
\* run: nothing of another call, nothing written before the call.
C6_OnlyOwnOutput ==
    environment = "hyperlight" /\ ret.call # 0 /\ ret.alone
        => OnlyOwnOutput(ret.text, ret.call)

\* C7: in _run_python the timeout result is returned only after the child was sent
\* the kill, the wait for its exit lasts at most the grace period, and a call that
\* waits for its child always returns.
C7_KillThenReturn ==
    /\ [](\A c \in Calls :
            /\ pc[c] = "grace" => killed[c]
            /\ grace[c] <= GRACE_PERIOD)
    /\ [](ret.text = TimeoutResult(timeout) => ret.killed /\ ret.grace <= GRACE_PERIOD)
    /\ \A c \in Calls : (pc[c] \in {"communicate", "grace"}) ~> Done(c)

\* C7 witness: the timeout result has been returned while the killed child, after
\* the whole grace period, still has not exited.
C7_Witness ==
    \E c \in Calls :
        /\ ret.call = c
        /\ ret.text = TimeoutResult(timeout)
        /\ ret.killed
        /\ ret.grace = GRACE_PERIOD
        /\ proc[c] = "running"

IsRateLimit(msg) == msg[1] \in {"429", "Too Many Requests", "TOO MANY REQUESTS"}

AllRateLimited(r) == \A i \in 1..Len(errs[r]) : IsRateLimit(errs[r][i])

\* C9: process() never makes more than max_retries + 1 attempts; when every attempt
\* failed with a rate-limit message it has made exactly max_retries + 1 attempts
\* and raises the error of the last attempt itself, not a wrapper.
C9_GivesUpAfterMaxRetries ==
    \A r \in Requests :
        /\ calls[r] <= max_retries + 1
        /\ rstate[r] = "failed" /\ AllRateLimited(r) =>
              /\ calls[r] = max_retries + 1
              /\ outcome[r] = [kind |-> "raised", error |-> errs[r][Len(errs[r])]]

\* C9 witness: three rate-limited attempts with max_retries = 2, then the raise.
C9_Witness ==
    /\ rstate["r1"] = "failed"
    /\ max_retries = 2
    /\ calls["r1"] = 3
    /\ AllRateLimited("r1")

\* C10: while retries remain, a rate-limited failure is followed by another attempt
\* (process() does not give up), and a process() that returns normally after k
\* failures has called next exactly k + 1 times, each time with its own context;
\* with no failure next is called exactly once.
C10_RetriesThenSucceeds ==
    \A r \in Requests :
        /\ rstate[r] = "failed" /\ calls[r] <= max_retries
              => ~IsRateLimit(errs[r][Len(errs[r])])
        /\ rstate[r] = "success" =>
              /\ calls[r] = Len(errs[r]) + 1
              /\ AllRateLimited(r)
              /\ passed[r] = {context[r]}
              /\ outcome[r].kind = "returned"

\* C10 witness: two rate-limited failures, then success at the third attempt.
C10_Witness ==
    /\ rstate["r1"] = "success"
    /\ Len(errs["r1"]) = 2
    /\ calls["r1"] = 3
    /\ max_retries = 3

\* C11: an error whose message does not match the rate-limit pattern ends process()
\* at once: it is the last error, process() raises it, and no wait and no attempt
\* follows it, whatever max_retries is and however many rate-limited attempts came
\* before it.
C11_OtherErrorPropagates ==
    \A r \in Requests :
        \A i \in 1..Len(errs[r]) :
            ~IsRateLimit(errs[r][i]) =>
                /\ i = Len(errs[r])
                /\ rstate[r] = "failed"
                /\ outcome[r] = [kind |-> "raised", error |-> errs[r][i]]
                /\ calls[r] = i
                /\ waits[r] = i - 1

\* C11 witness: two rate-limited attempts, then another error at the third attempt
\* with a retry still left: it was raised.
C11_Witness ==
    /\ max_retries = 3
    /\ Len(errs["r1"]) = 3
    /\ errs["r1"][3] = <<"Some other error">>
    /\ rstate["r1"] = "failed"
    /\ waits["r1"] = 2

\* a message that holds a rate-limit token, in any case, only after other text
TokenOnlyLater(msg) ==
    /\ ~IsRateLimit(msg)
    /\ \E j \in 2..Len(msg) : msg[j] \in {"429", "Too Many Requests", "TOO MANY REQUESTS"}

\* C12: the middleware waits and tries again only after an error whose message
\* begins, in any case, with "too many requests" or "429"; an error that holds one
\* of the tokens only after other text is raised on its first occurrence.
C12_AnchoredMatch ==
    \A r \in Requests :
        /\ rstate[r] = "waiting" => IsRateLimit(errs[r][Len(errs[r])])
        /\ \A i \in 1..Len(errs[r]) :
              /\ i < Len(errs[r]) => IsRateLimit(errs[r][i])
              /\ TokenOnlyLater(errs[r][i])
                    => rstate[r] = "failed" /\ outcome[r].error = errs[r][i]

\* C12 witness: "Error code: 429" after a retried "TOO MANY REQUESTS": raised with
\* retries left.
C12_Witness ==
    /\ errs["r1"] = << <<"TOO MANY REQUESTS">>, <<"Error code: ", "429">> >>
    /\ max_retries = 3
    /\ rstate["r1"] = "failed"
    /\ calls["r1"] = 2

\* C13: on a hyperlight tool whose calls run as tasks, at most one handle is ever
\* constructed, it is the tool's handle from then on, and every _execute and
\* clear_cache call that awaits the sandbox holds that handle.
C13_OneHandle ==
    /\ constructed <= 1
    /\ sandbox # None => sandbox = constructed
    /\ \A c \in Calls : pc[c] \in {"run", "clear"} => used[c] # None /\ used[c] = sandbox

\* C13 witness: after a first call that constructed the handle has returned, a
\* clear_cache call holds the same handle: NanvixSandbox was called once.
C13_Witness ==
    /\ MaxCalls >= 2
    /\ pc[1] = "done"
    /\ pc[2] = "clear"
    /\ used[2] = 1
    /\ attempts = 1
    /\ constructed = 1

\* C14: when first calls on one hyperlight tool run concurrently, as tasks or as
\* threads, a single handle is constructed and every call uses it.
C14_SerializedConstruction ==
    /\ constructed <= 1
    /\ \A c \in Calls : used[c] # None => used[c] = sandbox

\* the error texts of a call whose handle construction failed
ConstructionErrors ==
    {ErrorExecuting(msg) : msg \in ExcMsgs} \cup {FailedToClear(msg) : msg \in ExcMsgs}

\* C15: a failed construction of the handle ends that call with an error text and
\* leaves the tool's handle unset: a handle is cached only once one was constructed,
\* and while the handle is unset every call begun so far has called
\* NanvixSandbox(config) and has returned an error text.
C15_NotCachedOnFailure ==
    environment = "hyperlight" =>
        /\ constructed = 0 => sandbox = None
        /\ sandbox = None =>
              /\ attempts = Cardinality({c \in Calls : pc[c] # "idle"})
              /\ ret.call # 0 => ~ret.raised /\ ret.text \in ConstructionErrors

\* C15 witness: the construction failed in the first call, which returned the error
\* text; the second call constructed the handle.
C15_Witness ==
    /\ MaxCalls >= 2
    /\ pc[1] = "done"
    /\ attempts = 2
    /\ constructed = 1
    /\ used[2] = sandbox
    /\ sandbox # None

\* p is the text s cut after its first StrLen(p) units
IsPrefixOf(p, s) == StrLen(p) <= StrLen(s) /\ Take(s, StrLen(p)) = p

\* C16: when a child completes in time with decodable, non-empty output, the text
\* returned is the combined output itself if that is at most MAX_OUTPUT_SIZE units
\* long, and otherwise its first MAX_OUTPUT_SIZE units followed by the truncation
\* marker; it is never longer than MAX_OUTPUT_SIZE units plus the marker.
C16_Truncation ==
    [][\A c \in Calls :
          LET o == CombinedOutput(pipeOut[c], pipeErr[c])
              r == ret'.text
              front == SubSeq(r, 1, Len(r) - 1)
          IN  pc[c] = "communicate" /\ ret'.call = c /\ ~ret'.killed
                /\ Decodable(o) /\ o # <<>>
              => /\ StrLen(o) <= MAX_OUTPUT_SIZE => r = o
                 /\ StrLen(o) > MAX_OUTPUT_SIZE =>
                       /\ <<r[Len(r)]>> = TruncationMarker
                       /\ StrLen(front) = MAX_OUTPUT_SIZE
                       /\ IsPrefixOf(front, o)
                 /\ StrLen(r) <= MAX_OUTPUT_SIZE + StrLen(TruncationMarker)]_vars

\* C16 witness: an output longer than the limit came back as its first
\* MAX_OUTPUT_SIZE units and the marker.
C16_Witness ==
    /\ ret.call # 0
    /\ Len(ret.text) >= 2
    /\ <<ret.text[Len(ret.text)]>> = TruncationMarker
    /\ StrLen(ret.text) = MAX_OUTPUT_SIZE + StrLen(TruncationMarker)

\* C17: every call whose child completes before the timeout returns the child's
\* whole standard output followed by its whole standard error, truncated (the empty
\* result being "(No output)").
C17_StdoutThenStderr ==
    [][\A c \in Calls :
          pc[c] = "communicate" /\ ret'.call = c /\ ~ret'.killed
              => ret'.text = NonEmpty(Truncate(Cat(pipeOut[c], pipeErr[c])))]_vars

\* C18: on the python environment no child is started for a source written in
\* another language than python.
C18_FailFast ==
    \A c \in Calls :
        environment = "python" /\ code[c] \notin {"none", "python"} => proc[c] = "none"

\* the extension the workload file of each supported language is to have
SupportedExtension == [python |-> "py", javascript |-> "js", c |-> "c", cpp |-> "cpp"]

\* C19: a workload file has the extension of the tool's language (python .py,
\* javascript .js, c .c, cpp .cpp), and for a language outside that set no workload
\* file is written and the sandbox is not invoked.
C19_LanguageMapping ==
    IF hyperlight_language \in DOMAIN SupportedExtension
    THEN \A f \in files : f[2] = SupportedExtension[hyperlight_language]
    ELSE files = {} /\ \A c \in Calls : pc[c] # "run"

\* C20: a sandbox run that returned a WorkloadResult gives: on success the captured
\* text, or "Execution completed successfully." when nothing was captured; on
\* failure "Execution failed: " and the runtime's error, or "Unknown error" when it
\* gave none, whatever was captured.
C20_ResultMapping ==
    ret.result # NoResult =>
        LET success == ret.result[1]
            error == ret.result[2]
        IN  /\ success /\ ret.captured # <<>> => ret.text = ret.captured
            /\ success /\ ret.captured = <<>> =>
                  ret.text = Lit("Execution completed successfully.")
            /\ ~success /\ error # <<>> => ret.text = Lit("Execution failed: ") \o error
            /\ ~success /\ error = <<>> =>
                  ret.text = Lit("Execution failed: ") \o Lit("Unknown error")

\* C20 witness: a failed run without an error text, with captured output: the
\* output is not in the text returned.
C20_Witness ==
    /\ ret.result = <<FALSE, <<>> >>
    /\ ret.captured # <<>>
    /\ ret.text = Lit("Execution failed: ") \o Lit("Unknown error")

\* C21: on a tool whose environment is not hyperlight, clear_cache returns the
\* not-applicable message without raising, and no sandbox handle is ever built,
\* asked for or used: the handle stays None.
C21_ClearCacheNoOp ==
    environment # "hyperlight" =>
        /\ sandbox = None /\ constructed = 0 /\ attempts = 0
        /\ \A c \in Calls : used[c] = None
        /\ ret.op = "clear_cache" => ret.text = NotApplicable /\ ~ret.raised

\* C21 witness: clear_cache returned on a python tool after an execution
C21_Witness ==
    /\ environment = "python"
    /\ ret.op = "clear_cache" /\ ret.call = 2
    /\ ret.text = NotApplicable
    /\ sandbox = None

\* C24: no step of _execute or clear_cache changes the tool's environment, timeout,
\* log_directory, tmp_directory or hyperlight_language; the sandbox handle changes
\* only on a hyperlight tool, and on any other tool no handle is ever constructed.
C24_ConfigurationImmutable ==
    [][/\ UNCHANGED configVars
       /\ sandbox' # sandbox => environment = "hyperlight"
       /\ environment # "hyperlight" => sandbox' = None /\ constructed' = 0]_vars

\* C24 witness: on a hyperlight tool the handle was constructed and cleared, the
\* configuration is the one given at construction
C24_Witness ==
    /\ environment = "hyperlight"
    /\ sandbox # None /\ constructed = 1
    /\ ret.op = "clear_cache" /\ ret.call = 2
    /\ timeout = DEFAULT_TIMEOUT /\ hyperlight_language = DEFAULT_LANGUAGE
    /\ log_directory = gettempdir /\ tmp_directory = gettempdir

\* the text holds the value of a variable of the host process
HoldsVariable(text) == \E i \in 1..Len(text) : text[i][1] \in Environ

\* C23: whatever variables the host process has, the child of _run_python is given
\* the empty environment, and so what the child wrote and what the call returns
\* hold nothing of the host's variables: they are the same for every host.
C23_EmptyChildEnvironment ==
    /\ \A c \in Calls :
          pc[c] \in {"communicate", "grace"} =>
              /\ child_env[c] = {}
              /\ ~HoldsVariable(pipeOut[c]) /\ ~HoldsVariable(pipeErr[c])
    /\ ret.call # 0 => ~HoldsVariable(ret.text)

\* C23 witness: in a host process that has the variable, a child ran, wrote output
\* and the call returned it
C23_Witness ==
    /\ os_environ = {"SECRET"}
    /\ ret.call # 0 /\ ret.partial /\ ~ret.killed
    /\ ret.text = << <<"x", 0, 1>> >>

\* C26: once every sandbox execution begun on the process has completed, file
\* descriptor 1 refers to the target it had before the first of them began, also
\* when their sandbox runs overlapped.
C26_StdoutRestored ==
    environment = "hyperlight" /\ InFlight = {} => fd1 = OriginalStdout

\* the place of step st in steps, 0 when it was not taken
Pos(steps, st) ==
    IF \E i \in 1..Len(steps) : steps[i] = st
    THEN CHOOSE i \in 1..Len(steps) : steps[i] = st
    ELSE 0

\* step a was taken, and before step b
Before(steps, a, b) == Pos(steps, a) # 0 /\ Pos(steps, a) < Pos(steps, b)

Taken(steps, st) == Pos(steps, st) # 0

\* C27: in one sandbox execution the original descriptor is saved before standard
\* output is redirected, the redirect comes before the sandbox is invoked, the
\* invocation before the restore, and the capture file is read and deleted only
\* after the restore.
C27_StepOrder ==
    LET s == ret.steps IN
    /\ Taken(s, "redirect") => Before(s, "save", "redirect")
    /\ Taken(s, "invoke") => Before(s, "redirect", "invoke")
    /\ Taken(s, "restore") => Before(s, "invoke", "restore")
    /\ Taken(s, "read") => Before(s, "restore", "read") /\ Before(s, "read", "delete")
    /\ Taken(s, "redirect") /\ Taken(s, "delete") => Before(s, "restore", "delete")

\* the text holds host output written before call c began
WrittenBefore(text, c) ==
    \E i \in 1..Len(text) : text[i][1] = "h" /\ text[i][2] < c

\* C28: what the host process had buffered before a sandbox execution began is
\* flushed to the original target before the redirect: it is never in the capture
\* file of the execution nor in the captured text it returns.
C28_FlushBeforeRedirect ==
    /\ \A c \in Calls : ~WrittenBefore(cap[c], c)
    /\ ret.call # 0 => ~WrittenBefore(ret.captured, ret.call)

\* C25: get_instructions gives the hyperlight-Python instructions for hyperlight
\* with the language python, the hyperlight-JavaScript instructions for hyperlight
\* with any other language, and the Python-subprocess instructions for every other
\* environment, whatever the language.
C25_Instructions ==
    started /\ instructions # NoInstructions =>
        /\ environment = "hyperlight" /\ hyperlight_language = "python"
              => instructions = INTERPRETER_AGENT_INSTRUCTIONS_HYPERLIGHT_PY
        /\ environment = "hyperlight" /\ hyperlight_language # "python"
              => instructions = INTERPRETER_AGENT_INSTRUCTIONS_HYPERLIGHT_JS
        /\ environment # "hyperlight"
              => instructions = INTERPRETER_AGENT_INSTRUCTIONS_PYTHON

\* C25 witness: an environment that is neither python nor hyperlight, with the
\* language python: the Python-subprocess instructions
C25_Witness ==
    /\ started
    /\ environment = "docker" /\ hyperlight_language = "python"
    /\ instructions = INTERPRETER_AGENT_INSTRUCTIONS_PYTHON

\* min(min_wait * 2^(n-1), max_wait): the wait before retry n without its jitter
CappedExponential(n) == Min(min_wait * 2^(n - 1), max_wait)

\* C29: the wait before the n-th retry of process() is
\* min(min_wait * 2^(n-1), max_wait) plus a jitter of at most a tenth of that value
\* (so at most 1.1 * max_wait in all).
C29_WaitWithinTenPercent ==
    \A r \in Requests :
        rstate[r] = "waiting" =>
            LET base == CappedExponential(attempt_number[r])
                jitter == upcoming_sleep[r] - base
            IN  /\ 0 <= jitter
                /\ 10 * jitter <= base

\* C30: each call of process() counts its own attempts from 1: its attempt number,
\* its waits and the length of each wait follow from the errors raised to that call
\* alone, whatever earlier calls or calls in flight at the same time have seen, and
\* no call changes max_retries, min_wait or max_wait.
C30_FreshCounterPerCall ==
    /\ [](\A r \in Requests :
            /\ rstate[r] = "calling" => attempt_number[r] = Len(errs[r]) + 1
            /\ rstate[r] = "waiting" =>
                  /\ attempt_number[r] = Len(errs[r])
                  /\ upcoming_sleep[r] >= CappedExponential(Len(errs[r]))
                  /\ upcoming_sleep[r] <= CappedExponential(Len(errs[r])) + JITTER
            /\ rstate[r] # "idle" => waits[r] = attempt_number[r] - 1
            /\ calls[r] <= max_retries + 1
            /\ passed[r] \subseteq {context[r]})
    /\ [][UNCHANGED middlewareVars]_vars

\* C30 witness: the first call is at its second attempt after a rate-limited
\* failure, the second call, begun meanwhile, is at its first
C30_Witness ==
    /\ rstate["r1"] = "calling" /\ attempt_number["r1"] = 2 /\ Len(errs["r1"]) = 1
    /\ rstate["r2"] = "calling" /\ attempt_number["r2"] = 1 /\ errs["r2"] = <<>>

\* C22: when run_streaming_with_retry returns, what it printed of the model's text
\* is the chunks of the attempt that succeeded, and nothing of an attempt that
\* failed.
C22_OnlySuccessfulAttemptEmitted ==
    stream.state = "returned" =>
        \A i \in 1..Len(printed) :
            printed[i][1] = "chunk" => printed[i][2] = stream.attempt

\* a message that holds a rate-limit token, in any case, anywhere
HoldsToken(msg) ==
    \E j \in 1..Len(msg) : msg[j] \in {"429", "Too Many Requests", "TOO MANY REQUESTS"}

\* the steps of process() allowed by Idle -> Calling -> {Success | RateLimited ->
\* Waiting -> Calling | OtherError -> Failed}
ProcessMachine(r) ==
    LET from == rstate[r]
        to == rstate'[r]
        last == errs'[r][Len(errs'[r])]
    IN  /\ from = "idle" => to \in {"idle", "calling"}
        /\ from = "calling" => to \in {"calling", "success", "waiting", "failed"}
        /\ from = "waiting" => to \in {"waiting", "calling"}
        /\ from \in {"success", "failed"} => to = from /\ calls'[r] = calls[r]
        \* an attempt is made in Calling only, a wait ends in Waiting only
        /\ calls'[r] # calls[r] => from = "calling" /\ calls'[r] = calls[r] + 1
        /\ waits'[r] # waits[r] =>
              from = "waiting" /\ to = "calling" /\ waits'[r] = waits[r] + 1
        \* RateLimited with retries left goes to Waiting, everything else ends
        /\ from = "calling" /\ to = "waiting" =>
              IsRateLimit(last) /\ calls'[r] <= max_retries
        /\ from = "calling" /\ to = "failed" =>
              ~IsRateLimit(last) \/ calls'[r] = max_retries + 1
        \* one wait between two attempts, none after the last
        /\ to = "calling" => waits'[r] = calls'[r]
        /\ to \in {"waiting", "success", "failed"} => waits'[r] = calls'[r] - 1

\* the same machine for run_streaming_with_retry: Calling is streaming, Waiting is
\* sleeping, Success is returned, Failed is raised
StreamMachine ==
    LET from == stream.state
        to == stream'.state
    IN  /\ from = "idle" => to \in {"idle", "streaming"}
        /\ from = "streaming" => to \in {"streaming", "returned", "sleeping", "raised"}
        /\ from = "sleeping" => to \in {"sleeping", "streaming"}
        /\ from \in {"returned", "raised"} => stream' = stream /\ printed' = printed
        /\ stream'.attempt # stream.attempt =>
              /\ from \in {"idle", "sleeping"} /\ to = "streaming"
              /\ stream'.attempt = stream.attempt + 1
        /\ from \in {"idle", "sleeping"} /\ to = "streaming" =>
              stream'.attempt = stream.attempt + 1
        /\ from = "streaming" /\ to = "sleeping" =>
              stream.attempt <= stream.max_retries /\ stream'.wait_time > 0
        /\ from = "streaming" /\ to = "raised" =>
              \/ ~(stream'.error_type = "ServiceResponseException"
                    /\ HoldsToken(stream'.error))
              \/ stream.attempt = stream.max_retries + 1
        /\ to # "sleeping" => stream'.wait_time = 0

\* C31: process() and run_streaming_with_retry follow Idle, Calling, then Success,
\* or RateLimited, Waiting and Calling again, or OtherError and Failed: one wait
\* between two consecutive attempts, no wait after the last attempt, no attempt
\* after Success or Failed.
C31_RetryStateMachine ==
    [][(\A r \in Requests : ProcessMachine(r)) /\ StreamMachine]_vars

\* C31 witness: both callers have retried once and ended, the middleware by
\* exhausting its retries, the streaming caller by success
C31_Witness ==
    /\ rstate["r1"] = "failed" /\ calls["r1"] = max_retries + 1
    /\ waits["r1"] = max_retries /\ IsRateLimit(errs["r1"][Len(errs["r1"])])
    /\ stream.state = "returned" /\ stream.attempt = 2

\* C32: the text an execution returns, on the sandbox backend as on the subprocess
\* backend, is never longer than MAX_OUTPUT_SIZE plus the truncation marker.
C32_OutputBounded ==
    ret.call # 0 /\ ~ret.raised =>
        StrLen(ret.text) <= MAX_OUTPUT_SIZE + StrLen(TruncationMarker)

\* C33: a child that exits with a nonzero status gives a result that marks the
\* failure: it is not the result of a successful run with the same output, also
\* when the output is empty.
C33_NonzeroExitReported ==
    ret.call # 0 /\ ret.returncode # 0 =>
        ret.text # NonEmpty(Truncate(ret.output))

Count(steps, st) == Cardinality({i \in 1..Len(steps) : steps[i] = st})

\* C35: the duplicate of standard output that a sandbox execution takes is closed
\* exactly once before the call returns, on every exit path: the only duplicates
\* open are those of the executions awaiting the sandbox, and none is open when no
\* call is in flight.
C35_DuplicateClosedOnce ==
    /\ openFds = Cardinality({c \in Calls : pc[c] = "run"})
    /\ InFlight = {} => openFds = 0
    /\ ret.call # 0 => Count(ret.steps, "close") = Count(ret.steps, "save")

\* C35 witness: the capture file could not be opened; the call has returned with
\* the duplicate taken and closed, and no duplicate is open
C35_Witness ==
    /\ ret.call # 0
    /\ ret.steps = <<"save", "close">>
    /\ InFlight = {}
    /\ openFds = 0

\* an error run_streaming_with_retry is to retry: a ServiceResponseException whose
\* message holds a rate-limit token, in any case, anywhere
StreamRetryable(type, msg) == type = "ServiceResponseException" /\ HoldsToken(msg)

\* a step in which agent.run_stream raises
StreamErrorStep ==
    stream.state = "streaming" /\ stream'.state \in {"sleeping", "raised"}

\* C36: run_streaming_with_retry goes on to another attempt exactly after a
\* ServiceResponseException whose lower-cased message holds "too many requests" or
\* "429" anywhere, and only while fewer than max_retries + 1 attempts were made;
\* every other error is raised when it first occurs.
C36_StreamRetriesOnlyRateLimit ==
    /\ [](stream.attempt <= stream.max_retries + 1)
    /\ [][StreamErrorStep =>
            (stream'.state = "sleeping"
                <=> /\ StreamRetryable(stream'.error_type, stream'.error)
                    /\ stream.attempt <= stream.max_retries)]_vars

\* C36 witness: an error whose message holds the token after other text was
\* retried, and the next attempt ended by an exception of another type with a
\* rate-limit message, raised at once
C36_Witness ==
    /\ stream.state = "raised" /\ stream.attempt = 2
    /\ stream.attempt <= stream.max_retries
    /\ stream.error_type = "Exception" /\ HoldsToken(stream.error)
    /\ \E i \in 1..Len(printed) : printed[i] = RateLimitedNotice(1)

\* C37: when hyperlight is asked for and hyperlight_nanvix is missing, the function
\* app's start-up and create_interpreter_agent build the tool for the python
\* environment, and the construction raises no ImportError; a tool with the
\* environment hyperlight exists only when hyperlight_nanvix is available.
C37_FallBackToPython ==
    /\ startup.error = "none"
    /\ started /\ startup.requested = "hyperlight" /\ ~HYPERLIGHT_AVAILABLE
          => environment = "python"
    /\ started /\ environment = "hyperlight" => HYPERLIGHT_AVAILABLE
    /\ startup.by \in {"function_app", "create_interpreter_agent"} => started

\* C37 witness: create_interpreter_agent was asked for hyperlight without
\* hyperlight_nanvix, and the tool it built, a python one, has answered a call
C37_Witness ==
    /\ started /\ startup.by = "create_interpreter_agent"
    /\ startup.requested = "hyperlight" /\ ~HYPERLIGHT_AVAILABLE
    /\ environment = "python"
    /\ instructions = INTERPRETER_AGENT_INSTRUCTIONS_PYTHON
    /\ ret.call # 0 /\ ret.text = NotApplicable

====
